---- MODULE Spec2Model ----
(***************************************************************************)
(* Model of the blob verification pipeline of rollup.go: main() runs       *)
(* verify(), which decodes the transaction hash, asks the Celestia node    *)
(* for the transaction, the block, the share proof and the data root       *)
(* inclusion proof, and then asks the Blobstream contract to verify the    *)
(* attestation of the data root tuple.  Every collaborator (RPC node,      *)
(* square library, Ethereum client, contract wrapper) answers              *)
(* nondeterministically: with a value drawn from a small set or an error.  *)
(***************************************************************************)
EXTENDS Integers, Sequences, FiniteSets, TLC

VARIABLES
    pc,              \* position of main/verify
    txHash,          \* the transaction identifier, a sequence of characters
    txHashBz,        \* the decoded identifier
    conns,           \* state of the two clients: "none", "open", "closed"
    defers,          \* deferred closes registered so far, in order
    tx,              \* result of trpc.Tx
    block,           \* result of trpc.Block
    blobShareRange,  \* result of square.BlobShareRange
    shareProofs,     \* result of trpc.ProveShares
    dcProof,         \* result of trpc.DataRootInclusionProof
    calls,           \* collaborator calls issued so far, with their arguments
    attResult,       \* what VerifyDataRootInclusion returned (valid, err)
    err,             \* the error verify() returned
    exit             \* how the process ended: "running", "success", "fatal", "panic"

vars == <<pc, txHash, txHashBz, conns, defers, tx, block, blobShareRange,
          shareProofs, dcProof, calls, attResult, err, exit>>

----------------------------------------------------------------------------
(* Program constants                                                       *)

txHashConst ==
    << "4", "B", "1", "2", "2", "4", "5", "2", "F", "A", "6", "7", "9", "F", "1",
       "5", "B", "4", "5", "8", "2", "7", "1", "5", "1", "2", "8", "1", "6", "B",
       "9", "3", "3", "8", "0", "3", "D", "5", "8", "7", "0", "9", "1", "9", "F",
       "6", "7", "9", "6", "9", "B", "4", "D", "6", "2", "2", "2", "1", "D", "7",
       "0", "3", "4", "6" >>

blobIndex == 0
dataCommitmentStartBlock == 105001
dataCommitmentEndBlock == 106001
dataCommitmentNonce == 106

\* length of the [32]byte arrays of the contract wrapper
HashLen == 32

----------------------------------------------------------------------------
(* Bounds                                                                  *)

\* longest Aunts list a data root inclusion proof carries in the model
MaxAunts == 2

----------------------------------------------------------------------------
(* Byte strings                                                            *)

Fill(n, b) == [i \in 1..n |-> b]

\* two well-formed 32-byte hashes, one short and one long byte string; the
\* long one agrees with HashA on its first 32 bytes
HashA == Fill(HashLen, 1)
HashB == Fill(HashLen, 2)
ShortHash == Fill(HashLen - 1, 1)
LongHash == Fill(HashLen, 1) \o <<2>>

ByteStrings == {HashA, HashB, ShortHash, LongHash}

\* *(*[32]byte)(s): panics when len(s) < 32, else the first 32 bytes
ConvPanics(s) == Len(s) < HashLen
ToArray32(s) == SubSeq(s, 1, HashLen)

\* uint64(h) of an int64 h is h mod 2^64: h itself when h >= 0, 2^64 + h when
\* h < 0.  The value is kept as wraps * 2^64 + off.
ToUint64(h) == [wraps |-> IF h < 0 THEN 1 ELSE 0, off |-> h]

----------------------------------------------------------------------------
(* hex.DecodeString                                                        *)

HexDigits == << "0", "1", "2", "3", "4", "5", "6", "7", "8", "9",
                "A", "B", "C", "D", "E", "F" >>

IsHexChar(c) == \E i \in 1..Len(HexDigits) : HexDigits[i] = c

HexVal(c) == (CHOOSE i \in 1..Len(HexDigits) : HexDigits[i] = c) - 1

\* the decoder fails on a character that is no hex digit and on an odd length
HexDecodeFails(s) ==
    \/ \E i \in 1..Len(s) : ~IsHexChar(s[i])
    \/ Len(s) % 2 = 1

HexDecodeString(s) ==
    [i \in 1..(Len(s) \div 2) |-> HexVal(s[2 * i - 1]) * 16 + HexVal(s[2 * i])]

\* identifiers the run may be started with: the configured one, a valid hex
\* string of another length, an odd-length one, one with a non-hex character
TxHashInputs ==
    { txHashConst,
      << "4", "B", "1", "2" >>,
      << "4", "B", "1" >>,
      [txHashConst EXCEPT ![7] = "G"] }

----------------------------------------------------------------------------
(* Errors and zero values                                                  *)

NoErr == [msg |-> "", cause |-> ""]
Errorf(m, c) == [msg |-> m, cause |-> c]

NoTx == [Height |-> 0, Index |-> 0]
NoBlock == [DataHash |-> <<>>, App |-> 0]
NoRange == [Start |-> 0, End |-> 0]
NoShareProof == [ok |-> FALSE, root |-> <<>>]
NoProof == [Aunts |-> <<>>, Index |-> 0, Total |-> 0]
NoAttResult == [called |-> FALSE, valid |-> FALSE, err |-> ""]

\* a collaborator call, its arguments and whether it returned successfully
Call(n, a, r) == [name |-> n, args |-> a, ok |-> r]

----------------------------------------------------------------------------
(* Deferred calls                                                          *)

\* variant: only the most recently deferred call runs
RunDefers_LastOnly(cs, ds) ==
    [c \in DOMAIN cs |->
        IF Len(ds) > 0 /\ ds[Len(ds)] = c THEN "closed" ELSE cs[c]]

\* the deferred Stop/Close calls run when verify() returns or panics
RunDefers(cs, ds) ==
    [c \in DOMAIN cs |->
        IF \E i \in 1..Len(ds) : ds[i] = c THEN "closed" ELSE cs[c]]

\* return e from verify(): the deferred closes run, main takes over
Return(e) ==
    /\ err' = e
    /\ conns' = RunDefers(conns, defers)
    /\ pc' = "returned"

\* an unrecovered run-time panic: the deferred closes run, the process dies
Panic ==
    /\ err' = err
    /\ conns' = RunDefers(conns, defers)
    /\ pc' = "done"
    /\ exit' = "panic"

----------------------------------------------------------------------------
(* Initial state                                                           *)

Init ==
    /\ pc = "decode"
    /\ txHash \in TxHashInputs
    /\ txHashBz = <<>>
    /\ conns = [trpc |-> "none", ethClient |-> "none"]
    /\ defers = <<>>
    /\ tx = NoTx
    /\ block = NoBlock
    /\ blobShareRange = NoRange
    /\ shareProofs = NoShareProof
    /\ dcProof = NoProof
    /\ calls = <<>>
    /\ attResult = NoAttResult
    /\ err = NoErr
    /\ exit = "running"

----------------------------------------------------------------------------
(* verify()                                                                *)

\* txHashBz, err := hex.DecodeString(txHash)
DecodeString ==
    /\ pc = "decode"
    /\ IF HexDecodeFails(txHash)
       THEN /\ Return(Errorf("failed to decode transaction hash", "hex"))
            /\ UNCHANGED txHashBz
       ELSE /\ txHashBz' = HexDecodeString(txHash)
            /\ pc' = "connect"
            /\ UNCHANGED <<err, conns>>
    /\ UNCHANGED <<txHash, defers, tx, block, blobShareRange, shareProofs,
                   dcProof, calls, attResult, exit>>

\* variant: trpc.Stop() is called at once instead of being deferred
New_StopsAtOnce ==
    /\ pc = "connect"
    /\ \E ok \in BOOLEAN :
        IF ok
        THEN /\ conns' = [conns EXCEPT !.trpc = "closed"]
             /\ pc' = "tx"
             /\ UNCHANGED <<err, defers>>
        ELSE /\ Return(Errorf("failed to connect to Celestia", "http"))
             /\ UNCHANGED defers
    /\ UNCHANGED <<txHash, txHashBz, tx, block, blobShareRange, shareProofs,
                   dcProof, calls, attResult, exit>>

\* trpc, err := http.New(rpcEndpoint, "/websocket"); defer trpc.Stop()
New ==
    /\ pc = "connect"
    /\ \E ok \in BOOLEAN :
        IF ok
        THEN /\ conns' = [conns EXCEPT !.trpc = "open"]
             /\ defers' = Append(defers, "trpc")
             /\ pc' = "tx"
             /\ UNCHANGED err
        ELSE /\ Return(Errorf("failed to connect to Celestia", "http"))
             /\ UNCHANGED defers
    /\ UNCHANGED <<txHash, txHashBz, tx, block, blobShareRange, shareProofs,
                   dcProof, calls, attResult, exit>>

\* heights the node may report for the transaction: around both ends of the
\* committed batch [start, end), and a negative one
TxHeights ==
    { dataCommitmentStartBlock - 1, dataCommitmentStartBlock,
      dataCommitmentEndBlock - 1, dataCommitmentEndBlock, -1 }

TxIndexes == {0, 1}

\* tx, err := trpc.Tx(ctx, txHashBz, true)
Tx ==
    /\ pc = "tx"
    /\ \/ \E h \in TxHeights, i \in TxIndexes :
            /\ tx' = [Height |-> h, Index |-> i]
            /\ calls' = Append(calls, Call("Tx", <<txHashBz>>, TRUE))
            /\ pc' = "block"
            /\ UNCHANGED <<err, conns>>
       \/ /\ calls' = Append(calls, Call("Tx", <<txHashBz>>, FALSE))
          /\ Return(Errorf("failed to fetch transaction", "rpc"))
          /\ UNCHANGED tx
    /\ UNCHANGED <<txHash, txHashBz, defers, block, blobShareRange,
                   shareProofs, dcProof, attResult, exit>>

\* variant: the error of trpc.Block is not returned, verify() carries on
Block_IgnoresError ==
    /\ pc = "block"
    /\ \/ \E d \in ByteStrings, n \in {1, 2} :
            /\ block' = [DataHash |-> d, App |-> n]
            /\ calls' = Append(calls, Call("Block", <<tx.Height>>, TRUE))
       \/ /\ calls' = Append(calls, Call("Block", <<tx.Height>>, FALSE))
          /\ UNCHANGED block
    /\ pc' = "range"
    /\ UNCHANGED <<err, conns>>
    /\ UNCHANGED <<txHash, txHashBz, defers, tx, blobShareRange,
                   shareProofs, dcProof, attResult, exit>>

\* block, err := trpc.Block(ctx, &tx.Height)
Block ==
    /\ pc = "block"
    /\ \/ \E d \in ByteStrings, n \in {1, 2} :
            /\ block' = [DataHash |-> d, App |-> n]
            /\ calls' = Append(calls, Call("Block", <<tx.Height>>, TRUE))
            /\ pc' = "range"
            /\ UNCHANGED <<err, conns>>
       \/ /\ calls' = Append(calls, Call("Block", <<tx.Height>>, FALSE))
          /\ Return(Errorf("failed to fetch block", "rpc"))
          /\ UNCHANGED block
    /\ UNCHANGED <<txHash, txHashBz, defers, tx, blobShareRange,
                   shareProofs, dcProof, attResult, exit>>

ShareRanges == { [Start |-> 1, End |-> 2], [Start |-> 2, End |-> 5] }

\* blobShareRange, err := square.BlobShareRange(txs, int(tx.Index), int(blobIndex), app)
BlobShareRange ==
    /\ pc = "range"
    /\ LET args == <<tx.Index, blobIndex, block.App>>
       IN  \/ \E r \in ShareRanges :
                /\ blobShareRange' = r
                /\ calls' = Append(calls, Call("BlobShareRange", args, TRUE))
                /\ pc' = "prove"
                /\ UNCHANGED <<err, conns>>
           \/ \E c \in {"blob index out of range", "tx index out of range"} :
                /\ calls' = Append(calls, Call("BlobShareRange", args, FALSE))
                /\ Return(Errorf("failed to get blob share range", c))
                /\ UNCHANGED blobShareRange
    /\ UNCHANGED <<txHash, txHashBz, defers, tx, block, shareProofs,
                   dcProof, attResult, exit>>

\* variant: a failed trpc.ProveShares is requested again
ProveShares_Retry ==
    /\ pc = "prove"
    /\ Len(calls) < Len(txHashConst)
    /\ LET args == <<ToUint64(tx.Height), ToUint64(blobShareRange.Start),
                     ToUint64(blobShareRange.End)>>
       IN  \/ \E v \in BOOLEAN, r \in {HashA, HashB} :
                /\ shareProofs' = [ok |-> v, root |-> r]
                /\ calls' = Append(calls, Call("ProveShares", args, TRUE))
                /\ pc' = "verifyProof"
           \/ /\ calls' = Append(calls, Call("ProveShares", args, FALSE))
              /\ UNCHANGED <<shareProofs, pc>>
    /\ UNCHANGED <<err, conns>>
    /\ UNCHANGED <<txHash, txHashBz, defers, tx, block, blobShareRange,
                   dcProof, attResult, exit>>

\* shareProofs, err := trpc.ProveShares(ctx, uint64(tx.Height), uint64(Start), uint64(End))
ProveShares ==
    /\ pc = "prove"
    /\ LET args == <<ToUint64(tx.Height), ToUint64(blobShareRange.Start),
                     ToUint64(blobShareRange.End)>>
       IN  \/ \E v \in BOOLEAN, r \in {HashA, HashB} :
                /\ shareProofs' = [ok |-> v, root |-> r]
                /\ calls' = Append(calls, Call("ProveShares", args, TRUE))
                /\ pc' = "verifyProof"
                /\ UNCHANGED <<err, conns>>
           \/ /\ calls' = Append(calls, Call("ProveShares", args, FALSE))
              /\ Return(Errorf("failed to get share proofs", "rpc"))
              /\ UNCHANGED shareProofs
    /\ UNCHANGED <<txHash, txHashBz, defers, tx, block, blobShareRange,
                   dcProof, attResult, exit>>

\* variant: the result of VerifyProof() is not looked at
VerifyProof_IgnoresResult ==
    /\ pc = "verifyProof"
    /\ calls' = Append(calls, Call("VerifyProof", <<>>, shareProofs.ok))
    /\ pc' = "dcproof"
    /\ UNCHANGED <<err, conns>>
    /\ UNCHANGED <<txHash, txHashBz, defers, tx, block, blobShareRange,
                   shareProofs, dcProof, attResult, exit>>

\* if !shareProofs.VerifyProof() { return fmt.Errorf("...: %w", err) }, err == nil
VerifyProof ==
    /\ pc = "verifyProof"
    /\ calls' = Append(calls, Call("VerifyProof", <<>>, shareProofs.ok))
    /\ IF ~shareProofs.ok
       THEN Return(Errorf("failed to verify share proofs", "nil"))
       ELSE /\ pc' = "dcproof"
            /\ UNCHANGED <<err, conns>>
    /\ UNCHANGED <<txHash, txHashBz, defers, tx, block, blobShareRange,
                   shareProofs, dcProof, attResult, exit>>

RECURSIVE SeqsUpTo(_, _)
\* sequences over S of length at most n
SeqsUpTo(S, n) ==
    IF n = 0 THEN { <<>> }
    ELSE LET shorter == SeqsUpTo(S, n - 1)
         IN  shorter \cup { Append(q, x) : q \in shorter, x \in S }

BatchSize == dataCommitmentEndBlock - dataCommitmentStartBlock

\* (Index, Total) pairs of the proofs the node may return
ProofShapes == { <<0, 1>>, <<0, BatchSize>>, <<BatchSize - 1, BatchSize>> }

\* dcProof, err := trpc.DataRootInclusionProof(ctx, uint64(tx.Height), start, end)
DataRootInclusionProof ==
    /\ pc = "dcproof"
    /\ LET args == <<ToUint64(tx.Height), dataCommitmentStartBlock,
                     dataCommitmentEndBlock>>
       IN  \/ \E a \in SeqsUpTo(ByteStrings, MaxAunts), s \in ProofShapes :
                /\ dcProof' = [Aunts |-> a, Index |-> s[1], Total |-> s[2]]
                /\ calls' = Append(calls, Call("DataRootInclusionProof", args, TRUE))
                /\ pc' = "dial"
                /\ UNCHANGED <<err, conns>>
           \/ \E c \in {"height out of range", "rpc"} :
                /\ calls' = Append(calls, Call("DataRootInclusionProof", args, FALSE))
                /\ Return(Errorf("failed to generate data root inclusion proof", c))
                /\ UNCHANGED dcProof
    /\ UNCHANGED <<txHash, txHashBz, defers, tx, block, blobShareRange,
                   shareProofs, attResult, exit>>

\* ethClient, err := ethclient.Dial(evmRPC); defer ethClient.Close()
Dial ==
    /\ pc = "dial"
    /\ \E ok \in BOOLEAN :
        /\ calls' = Append(calls, Call("Dial", <<>>, ok))
        /\ IF ok
           THEN /\ conns' = [conns EXCEPT !.ethClient = "open"]
                /\ defers' = Append(defers, "ethClient")
                /\ pc' = "wrappers"
                /\ UNCHANGED err
           ELSE /\ Return(Errorf("failed to connect to Ethereum client", "dial"))
                /\ UNCHANGED defers
    /\ UNCHANGED <<txHash, txHashBz, tx, block, blobShareRange, shareProofs,
                   dcProof, attResult, exit>>

\* blobstreamWrapper, err := wrapper.NewWrappers(contractAddress, ethClient)
NewWrappers ==
    /\ pc = "wrappers"
    /\ \E ok \in BOOLEAN :
        /\ calls' = Append(calls, Call("NewWrappers", <<>>, ok))
        /\ IF ok
           THEN /\ pc' = "attest"
                /\ UNCHANGED <<err, conns>>
           ELSE Return(Errorf("failed to fetch BlobstreamX contract", "abi"))
    /\ UNCHANGED <<txHash, txHashBz, defers, tx, block, blobShareRange,
                   shareProofs, dcProof, attResult, exit>>

----------------------------------------------------------------------------
(* VerifyDataRootInclusion                                                 *)

\* wrapper.DataRootTuple{Height: big.NewInt(height), DataRoot: *(*[32]byte)(dataRoot)}
DataRootTuple(height, dataRoot) ==
    [Height |-> height, DataRoot |-> ToArray32(dataRoot)]

\* sideNodes[i] = *(*[32]byte)(aunt), in the order of proof.Aunts
SideNodes(aunts) == [i \in 1..Len(aunts) |-> ToArray32(aunts[i])]

\* wrapper.BinaryMerkleProof{SideNodes, Key: proof.Index, NumLeaves: proof.Total}
BinaryMerkleProof(proof) ==
    [SideNodes |-> SideNodes(proof.Aunts),
     Key |-> proof.Index,
     NumLeaves |-> proof.Total]

\* one of the array conversions of the re-encoding panics
ReencodePanics(dataRoot, proof) ==
    \/ ConvPanics(dataRoot)
    \/ \E i \in 1..Len(proof.Aunts) : ConvPanics(proof.Aunts[i])

\* what VerifyAttestation may answer: (valid, err)
AttOutcomes ==
    { [valid |-> TRUE, err |-> ""],
      [valid |-> FALSE, err |-> ""],
      [valid |-> FALSE, err |-> "rpc"] }

\* variant: the re-encoding cuts the data root and the aunts to 32 bytes in
\* place, in the caller's slices
VerifyDataRootInclusion_InPlace ==
    /\ pc = "attest"
    /\ IF ReencodePanics(block.DataHash, dcProof)
       THEN /\ Panic
            /\ UNCHANGED <<calls, attResult, block, dcProof>>
       ELSE /\ \E r \in AttOutcomes :
                 /\ attResult' = [called |-> TRUE, valid |-> r.valid, err |-> r.err]
                 /\ calls' = Append(calls,
                               Call("VerifyAttestation",
                                    <<dataCommitmentNonce,
                                      DataRootTuple(tx.Height, block.DataHash),
                                      BinaryMerkleProof(dcProof)>>,
                                    r.valid /\ r.err = ""))
            /\ block' = [block EXCEPT !.DataHash = ToArray32(block.DataHash)]
            /\ dcProof' = [dcProof EXCEPT !.Aunts = SideNodes(dcProof.Aunts)]
            /\ Return(NoErr)
            /\ UNCHANGED exit
    /\ UNCHANGED <<txHash, txHashBz, defers, tx, blobShareRange, shareProofs>>

\* VerifyDataRootInclusion(blobstreamWrapper, tx.Height, nonce, DataHash, dcProof.Proof)
\* followed by verify()'s return nil: the two results are dropped
VerifyDataRootInclusion ==
    /\ pc = "attest"
    /\ IF ReencodePanics(block.DataHash, dcProof)
       THEN /\ Panic
            /\ UNCHANGED <<calls, attResult>>
       ELSE /\ \E r \in AttOutcomes :
                 /\ attResult' = [called |-> TRUE, valid |-> r.valid, err |-> r.err]
                 /\ calls' = Append(calls,
                               Call("VerifyAttestation",
                                    <<dataCommitmentNonce,
                                      DataRootTuple(tx.Height, block.DataHash),
                                      BinaryMerkleProof(dcProof)>>,
                                    r.valid /\ r.err = ""))
            /\ Return(NoErr)
            /\ UNCHANGED exit
    /\ UNCHANGED <<txHash, txHashBz, defers, tx, block, blobShareRange,
                   shareProofs, dcProof>>

----------------------------------------------------------------------------
(* main()                                                                  *)

\* variant: the error check of main is inverted
main_InvertedCheck ==
    /\ pc = "returned"
    /\ exit' = IF err = NoErr THEN "fatal" ELSE "success"
    /\ pc' = "done"
    /\ UNCHANGED <<txHash, txHashBz, conns, defers, tx, block, blobShareRange,
                   shareProofs, dcProof, calls, attResult, err>>

\* variant: main runs verify() again when it returned an error
main_Retries ==
    /\ pc = "returned"
    /\ IF err # NoErr
       THEN /\ pc' = "decode"
            /\ txHashBz' = <<>>
            /\ conns' = [trpc |-> "none", ethClient |-> "none"]
            /\ defers' = <<>>
            /\ tx' = NoTx
            /\ block' = NoBlock
            /\ blobShareRange' = NoRange
            /\ shareProofs' = NoShareProof
            /\ dcProof' = NoProof
            /\ calls' = <<>>
            /\ err' = NoErr
            /\ UNCHANGED <<txHash, attResult, exit>>
       ELSE /\ exit' = "success"
            /\ pc' = "done"
            /\ UNCHANGED <<txHash, txHashBz, conns, defers, tx, block,
                           blobShareRange, shareProofs, dcProof, calls,
                           attResult, err>>

\* if err := verify(); err != nil { log.Fatalf(...) }; log.Println("completed")
main ==
    /\ pc = "returned"
    /\ exit' = IF err # NoErr THEN "fatal" ELSE "success"
    /\ pc' = "done"
    /\ UNCHANGED <<txHash, txHashBz, conns, defers, tx, block, blobShareRange,
                   shareProofs, dcProof, calls, attResult, err>>

----------------------------------------------------------------------------

Next ==
    \/ DecodeString
    \/ New
    \/ Tx
    \/ Block
    \/ BlobShareRange
    \/ ProveShares
    \/ VerifyProof
    \/ DataRootInclusionProof
    \/ Dial
    \/ NewWrappers
    \/ VerifyDataRootInclusion
    \/ main

Spec == Init /\ [][Next]_vars

\* every call of main and verify() is blocking and returns: a step that can be
\* taken is eventually taken
FairSpec == Spec /\ WF_vars(Next)

----------------------------------------------------------------------------
(* The pipeline's stages, states and error kinds, read off verify()        *)

\* the calls of verify() in program order
CallOrder ==
    << "Tx", "Block", "BlobShareRange", "ProveShares", "VerifyProof",
       "DataRootInclusionProof", "Dial", "NewWrappers", "VerifyAttestation" >>

CallNames == [i \in 1..Len(calls) |-> calls[i].name]

Terminal == pc \in {"returned", "done"}

\* Start -> Located -> ShareVerified -> BatchProved -> Attested | Failed
State ==
    CASE pc \in {"decode", "connect", "tx", "block", "range"} -> "Start"
      [] pc \in {"prove", "verifyProof"} -> "Located"
      [] pc = "dcproof" -> "ShareVerified"
      [] pc \in {"dial", "wrappers", "attest"} -> "BatchProved"
      [] OTHER -> IF err = NoErr /\ exit # "panic" THEN "Attested" ELSE "Failed"

\* the error kind a message of verify() stands for
ErrKind ==
    CASE err.msg = "failed to decode transaction hash" -> "DecodeError"
      [] err.msg \in {"failed to fetch transaction", "failed to fetch block"}
            -> "NotFound"
      [] err.msg = "failed to get blob share range" -> "RangeError"
      [] err.msg \in {"failed to get share proofs",
                      "failed to generate data root inclusion proof"}
            -> "ProofFetchError"
      [] err.msg = "failed to verify share proofs" -> "ProofInvalid"
      [] err.msg = "failed to fetch BlobstreamX contract" -> "ContractCallError"
      [] err.msg \in {"failed to connect to Celestia",
                      "failed to connect to Ethereum client"} -> "ConnectError"
      [] OTHER -> "none"

\* the stage whose step produced the error
FailedStage ==
    CASE err.msg \in {"failed to decode transaction hash",
                      "failed to connect to Celestia",
                      "failed to fetch transaction", "failed to fetch block",
                      "failed to get blob share range"} -> 1
      [] err.msg \in {"failed to get share proofs",
                      "failed to verify share proofs"} -> 2
      [] err.msg = "failed to generate data root inclusion proof" -> 3
      [] err.msg \in {"failed to connect to Ethereum client",
                      "failed to fetch BlobstreamX contract"} -> 4
      [] OTHER -> 0

HasCall(n) == \E i \in 1..Len(calls) : calls[i].name = n

CallOf(n) == calls[CHOOSE i \in 1..Len(calls) : calls[i].name = n]

FailedCall(n) == \E i \in 1..Len(calls) : calls[i].name = n /\ ~calls[i].ok

----------------------------------------------------------------------------
(* Claims                                                                  *)

\* C1: the process reports success only if VerifyAttestation returned
\* valid == true with no error.
C1_SuccessOnlyIfAttested ==
    exit = "success" =>
        attResult.called /\ attResult.valid /\ attResult.err = ""

\* C2: when stages 1-3 succeed and the attestation call fails, the run ends in
\* Failed at stage 4, with AttestationMismatch when the call returned false
\* and ContractCallError when the call itself failed.
C2_AttestationFailureFails ==
    (pc = "done" /\ FailedCall("VerifyAttestation")) =>
        /\ State = "Failed"
        /\ exit = "fatal"
        /\ FailedStage = 4
        /\ ErrKind = IF attResult.err = "" THEN "AttestationMismatch"
                                         ELSE "ContractCallError"

\* C3: the run fails closed: once the transaction fetch, the block fetch, the
\* share range computation, the share proof fetch, the share proof check or
\* the data root inclusion proof fetch fails, the pipeline is Failed and the
\* failed call is the last call made; a failed share range computation halts
\* at stage 1 with RangeError, the contract client never opened and
\* VerifyAttestation never called.
C3_FailClosed ==
    /\ \A k \in 1..6 :
          FailedCall(CallOrder[k]) =>
              /\ State = "Failed"
              /\ err # NoErr
              /\ CallNames = SubSeq(CallOrder, 1, k)
              /\ conns.ethClient = "none"
              /\ ~attResult.called
              /\ pc = "done" => exit = "fatal"
    /\ FailedCall("BlobShareRange") =>
          /\ ErrKind = "RangeError"
          /\ FailedStage = 1

C3_Witness ==
    /\ pc = "done"
    /\ FailedCall("BlobShareRange")
    /\ err.cause = "blob index out of range"
    /\ conns.trpc = "closed"

\* C4: when the share proof was fetched and VerifyProof() returns false, the
\* run halts with a non-nil error of kind ProofInvalid, which is not the
\* transport error of the fetch; no second share proof is requested and
\* neither DataRootInclusionProof nor VerifyAttestation is called.
C4_ProofInvalidHalts ==
    FailedCall("VerifyProof") =>
        /\ CallOf("ProveShares").ok
        /\ State = "Failed"
        /\ err # NoErr
        /\ ErrKind = "ProofInvalid"
        /\ err # Errorf("failed to get share proofs", "rpc")
        /\ CallNames = SubSeq(CallOrder, 1, 5)
        /\ ~HasCall("DataRootInclusionProof")
        /\ ~HasCall("VerifyAttestation")
        /\ pc = "done" => exit = "fatal"

C4_Witness ==
    /\ pc = "done"
    /\ FailedCall("VerifyProof")
    /\ exit = "fatal"

\* C5: when every collaborator call succeeds and VerifyAttestation returns
\* true without error, the run ends in Attested and reports success with no
\* error, every call of the four stages made exactly once, in order.
C5_HappyPath ==
    (/\ Terminal
     /\ attResult.called /\ attResult.valid /\ attResult.err = ""
     /\ \A i \in 1..Len(calls) : calls[i].ok) =>
        /\ State = "Attested"
        /\ err = NoErr
        /\ CallNames = CallOrder
        /\ pc = "done" => exit = "success"

C5_Witness ==
    /\ pc = "done"
    /\ exit = "success"
    /\ attResult.called /\ attResult.valid /\ attResult.err = ""
    /\ \A i \in 1..Len(calls) : calls[i].ok

\* C6: the re-encoding is order-preserving and lossless for every inclusion
\* proof: the side nodes passed to the contract equal Aunts element by
\* element, the key equals Index and numLeaves equals Total.
C6_ReencodeLossless ==
    HasCall("VerifyAttestation") =>
        LET p == CallOf("VerifyAttestation").args[3]
        IN  /\ Len(p.SideNodes) = Len(dcProof.Aunts)
            /\ \A i \in 1..Len(dcProof.Aunts) : p.SideNodes[i] = dcProof.Aunts[i]
            /\ p.Key = dcProof.Index
            /\ p.NumLeaves = dcProof.Total

\* C7: on every exit path, every connection that was opened has been released
\* when the run ends: no terminal state has an open connection.
C7_ConnectionsReleased ==
    Terminal => \A c \in DOMAIN conns : conns[c] # "open"

C7_Witness ==
    /\ pc = "done"
    /\ conns.trpc = "closed"
    /\ conns.ethClient = "closed"

\* the digest length of the configured transaction identifier
DigestLen == Len(txHashConst) \div 2

Malformed(s) == HexDecodeFails(s) \/ Len(s) \div 2 # DigestLen

\* C8: an identifier that is not valid hex or does not decode to the digest
\* length makes the run fail with DecodeError before any connection is opened
\* and before any collaborator call is made.
C8_MalformedRejected ==
    (Malformed(txHash) /\ pc # "decode") =>
        /\ Terminal
        /\ ErrKind = "DecodeError"
        /\ calls = <<>>
        /\ \A c \in DOMAIN conns : conns[c] = "none"

InBatch(h) == dataCommitmentStartBlock <= h /\ h < dataCommitmentEndBlock

\* C9: when the height resolved for the transaction lies outside
\* [startBlock, endBlock), the run halts at stage 3 with ProofFetchError and
\* VerifyAttestation is never called.
C9_OutOfBatchHalts ==
    (pc = "done" /\ HasCall("DataRootInclusionProof") /\ ~InBatch(tx.Height)) =>
        /\ State = "Failed"
        /\ FailedStage = 3
        /\ ErrKind = "ProofFetchError"
        /\ ~HasCall("VerifyAttestation")

StateSucc(s) ==
    CASE s = "Start" -> "Located"
      [] s = "Located" -> "ShareVerified"
      [] s = "ShareVerified" -> "BatchProved"
      [] s = "BatchProved" -> "Attested"
      [] OTHER -> s

StateStep(s, t) ==
    \/ t = s
    \/ /\ s \notin {"Attested", "Failed"}
       /\ t \in {StateSucc(s), "Failed"}

\* C10: the pipeline state only moves forward, one state at a time, or to
\* Failed; Attested and Failed are never left; every collaborator call is
\* issued at most once, in program order, and only after the call before it
\* returned successfully.
C10_OneWay ==
    [][ /\ StateStep(State, State')
        /\ CallNames' = SubSeq(CallOrder, 1, Len(calls'))
        /\ \A i \in 1..(Len(calls') - 1) : calls'[i].ok ]_vars

C10_Witness ==
    /\ pc = "done"
    /\ State = "Failed"
    /\ FailedCall("DataRootInclusionProof")

\* C11: when the share proof check passes, the root the share proof was
\* checked against is the committed data root of the block at that height,
\* the one stage 4 sends to the contract in the DataRootTuple.
C11_ShareRootIsBlockRoot ==
    (HasCall("VerifyProof") /\ ~FailedCall("VerifyProof")) =>
        /\ shareProofs.root = block.DataHash
        /\ HasCall("VerifyAttestation") =>
              CallOf("VerifyAttestation").args[2].DataRoot = shareProofs.root

\* C12: a sibling hash or a data root that is not exactly 32 bytes long is
\* rejected at the re-encoding: no VerifyAttestation call is made for it and
\* no truncated hash reaches the contract.
C12_WrongLengthRejected ==
    HasCall("VerifyAttestation") =>
        /\ Len(block.DataHash) = HashLen
        /\ \A i \in 1..Len(dcProof.Aunts) : Len(dcProof.Aunts[i]) = HashLen

\* C13 as stated: both connections are acquired before the first call of the
\* Blob Locator and both are open in every state from Located up to the
\* terminal state.
C13_BothOpenFromStart ==
    /\ (calls # <<>> /\ ~Terminal) => \A c \in DOMAIN conns : conns[c] = "open"
    /\ State \in {"Located", "ShareVerified", "BatchProved"} =>
          \A c \in DOMAIN conns : conns[c] = "open"

\* C13, amended: the data-availability connection is acquired before the
\* first call of the Blob Locator and is open in every later state up to the
\* terminal state; the contract-chain connection is not acquired before the
\* data root inclusion proof was obtained, and once ethclient.Dial succeeded
\* it is open up to the terminal state.
C13_ConnectionsAsAcquired ==
    /\ calls # <<>> => conns.trpc # "none"
    /\ (pc \notin {"decode", "connect"} /\ ~Terminal) => conns.trpc = "open"
    /\ pc \in {"wrappers", "attest"} => conns.ethClient = "open"
    /\ (~Terminal /\ pc \notin {"wrappers", "attest"}) => conns.ethClient = "none"
    /\ ~HasCall("DataRootInclusionProof") => conns.ethClient = "none"

C13_Witness ==
    /\ pc = "attest"
    /\ conns.trpc = "open"
    /\ conns.ethClient = "open"

Produced(n) == HasCall(n) /\ ~FailedCall(n)

\* C14: the re-encoding leaves its inputs as they were (Aunts, Index, Total
\* and the data root bytes), and no value an earlier stage produced
\* (transaction result, block, share range, share proof, inclusion proof) is
\* changed by a later step.
C14_InputsUnchanged ==
    [][ /\ Produced("Tx") => tx' = tx
        /\ Produced("Block") => block' = block
        /\ Produced("BlobShareRange") => blobShareRange' = blobShareRange
        /\ Produced("ProveShares") => shareProofs' = shareProofs
        /\ Produced("DataRootInclusionProof") => dcProof' = dcProof ]_vars

\* the re-encoding ran on a data root and an aunt it had to cut
C14_Witness ==
    /\ pc = "done"
    /\ HasCall("VerifyAttestation")
    /\ block.DataHash = LongHash
    /\ \E i \in 1..Len(dcProof.Aunts) : dcProof.Aunts[i] = LongHash
    /\ CallOf("VerifyAttestation").args[2].DataRoot = HashA

\* C15: the block fetch, the share proof request, the data root inclusion
\* proof request and the DataRootTuple all carry the height the transaction
\* lookup returned; the tuple's dataRoot is the data hash of the fetched
\* block; the nonce and the batch boundaries are the configured constants.
C15_SameHeightAndRoot ==
    /\ HasCall("Block") => CallOf("Block").args[1] = tx.Height
    /\ HasCall("ProveShares") =>
          CallOf("ProveShares").args[1] = [wraps |-> 0, off |-> tx.Height]
    /\ HasCall("DataRootInclusionProof") =>
          /\ CallOf("DataRootInclusionProof").args[1]
                = [wraps |-> 0, off |-> tx.Height]
          /\ CallOf("DataRootInclusionProof").args[2] = dataCommitmentStartBlock
          /\ CallOf("DataRootInclusionProof").args[3] = dataCommitmentEndBlock
    /\ HasCall("VerifyAttestation") =>
          /\ CallOf("VerifyAttestation").args[1] = dataCommitmentNonce
          /\ CallOf("VerifyAttestation").args[2].Height = tx.Height
          /\ CallOf("VerifyAttestation").args[2].DataRoot = block.DataHash

\* C16: given that every collaborator call returns, every run reaches a
\* terminal state, Attested or Failed, and the process ends; no more calls
\* are made on the way than verify() has call sites.
C16_Terminates ==
    /\ [](Len(calls) <= Len(CallOrder))
    /\ <>(pc = "done" /\ State \in {"Attested", "Failed"})

C16_Witness ==
    /\ pc = "done"
    /\ State \in {"Attested", "Failed"}
    /\ exit # "running"

====
